---- MODULE Spec2Model ----
(***************************************************************************)
(* Model of the query/update evaluation core of the KeraDB Go client       *)
(* (keradb.go): matchesFilter with its comparison helpers, and applyUpdate. *)
(*                                                                         *)
(* Go values of static type interface{} are records [k |-> kind, v |-> x]: *)
(*   "nil"      the nil interface (JSON null, or an absent map entry)      *)
(*   "bool"     bool                                                       *)
(*   "int"      Go int (a caller's untyped integer literal)                *)
(*   "float64"  float64 (every number decoded from JSON)                   *)
(*   "string"   string, v is the sequence of its bytes                     *)
(*   "slice"    []interface{}, v is the sequence of its elements           *)
(*   "map"      map[string]interface{}, v is a function on its keys        *)
(*   "M"        keradb.M, v is a function on its keys                      *)
(*   "Ms"       []keradb.M, v is a sequence of such functions              *)
(* A Go map is iterated in an unspecified order; a loop over a map is     *)
(* therefore modelled by the set of outcomes of all its visiting orders.   *)
(***************************************************************************)
EXTENDS FiniteSets, Integers, Sequences, TLC

VARIABLES pc, doc, filter, update, result, updated, again, spare, doc0,
          cursor, ret, store, calls, yielded, callers

vars == <<pc, doc, filter, update, result, updated, again, spare, doc0,
          cursor, ret, store, calls, yielded, callers>>

----------------------------------------------------------------------------
(* Bounds of the input universe *)

MaxNum == 2
MaxLen == 2
MaxConj == 2
MaxSpare == 1
MaxDocs == 3
MaxArg == 4
MaxStored == 2
MaxFaultAt == 5

----------------------------------------------------------------------------
(* Values *)

V(k, v) == [k |-> k, v |-> v]

Nil == V("nil", 0)

\* doc[key] on a Go map: the zero value (nil interface) when key is absent
Get(m, key) == IF key \in DOMAIN m THEN m[key] ELSE Nil

\* the map m with m[key] = val
Put(m, key, val) == [x \in DOMAIN m \cup {key} |-> IF x = key THEN val ELSE m[x]]

\* a delete that removes nothing
Del_Keep(m, key) == m

\* delete(m, key)
Del(m, key) == [x \in DOMAIN m \ {key} |-> m[x]]

\* key[0] of a Go string: "none" stands for the index-out-of-range panic of
\* the empty string, "$" for the sigil, "other" for any other first byte.
SigilNames == {"$", "$and", "$or", "$future_op", "$eq", "$ne", "$gt", "$gte",
               "$lt", "$lte", "$in", "$nin", "$regex", "$set", "$unset", "$inc",
               "$push", "$rename"}

FirstByte(s) == IF s = "" THEN "none" ELSE IF s \in SigilNames THEN "$" ELSE "other"

\* Go's < on strings: bytewise lexicographic order
RECURSIVE StrLess(_, _)
StrLess(s, t) ==
    IF s = <<>> THEN t # <<>>
    ELSE IF t = <<>> THEN FALSE
    ELSE IF Head(s) # Head(t) THEN Head(s) < Head(t)
    ELSE StrLess(Tail(s), Tail(t))

\* reflect.DeepEqual on two interface{} values: identical dynamic types, then
\* == on scalars, element-wise on slices, key-wise on maps.
RECURSIVE DeepEqual(_, _)
DeepEqual(a, b) ==
    IF a.k # b.k THEN FALSE
    ELSE CASE a.k = "nil" -> TRUE
           [] a.k \in {"bool", "int", "float64", "string"} -> a.v = b.v
           [] a.k = "slice" ->
                /\ Len(a.v) = Len(b.v)
                /\ \A i \in 1..Len(a.v) : DeepEqual(a.v[i], b.v[i])
           [] a.k \in {"map", "M"} ->
                /\ DOMAIN a.v = DOMAIN b.v
                /\ \A x \in DOMAIN a.v : DeepEqual(a.v[x], b.v[x])
           [] a.k = "Ms" ->
                /\ Len(a.v) = Len(b.v)
                /\ \A i \in 1..Len(a.v) :
                      DeepEqual(V("M", a.v[i]), V("M", b.v[i]))

----------------------------------------------------------------------------
(* Comparison helpers *)

compareGT(a, b) ==
    CASE a.k = "float64" -> IF b.k = "float64" THEN a.v > b.v ELSE FALSE
      [] a.k = "int"     -> IF b.k = "int" THEN a.v > b.v ELSE FALSE
      [] a.k = "string"  -> IF b.k = "string" THEN StrLess(b.v, a.v) ELSE FALSE
      [] OTHER           -> FALSE

compareGTE(a, b) == compareGT(a, b) \/ DeepEqual(a, b)

compareLT(a, b) ==
    CASE a.k = "float64" -> IF b.k = "float64" THEN a.v < b.v ELSE FALSE
      [] a.k = "int"     -> IF b.k = "int" THEN a.v < b.v ELSE FALSE
      [] a.k = "string"  -> IF b.k = "string" THEN StrLess(a.v, b.v) ELSE FALSE
      [] OTHER           -> FALSE

compareLTE(a, b) == compareLT(a, b) \/ DeepEqual(a, b)

\* reflect.Kind() == reflect.Slice
IsSliceKind(x) == x.k \in {"slice", "Ms"}

\* slice.Index(i).Interface()
SliceElem(arr, i) == IF arr.k = "Ms" THEN V("M", arr.v[i]) ELSE arr.v[i]

containsValue_FirstOnly(arr, val) ==
    IF ~IsSliceKind(arr) THEN FALSE
    ELSE Len(arr.v) > 0 /\ DeepEqual(SliceElem(arr, 1), val)

containsValue(arr, val) ==
    IF ~IsSliceKind(arr) THEN FALSE
    ELSE \E i \in 1..Len(arr.v) : DeepEqual(SliceElem(arr, i), val)

----------------------------------------------------------------------------
(* matchesFilter *)

\* one case of the switch over a comparison operator: TRUE when the case
\* executes "return false"
OperatorRejects(op, docValue, opValue) ==
    CASE op = "$eq"  -> ~DeepEqual(docValue, opValue)
      [] op = "$ne"  -> DeepEqual(docValue, opValue)
      [] op = "$gt"  -> ~compareGT(docValue, opValue)
      [] op = "$gte" -> ~compareGTE(docValue, opValue)
      [] op = "$lt"  -> ~compareLT(docValue, opValue)
      [] op = "$lte" -> ~compareLTE(docValue, opValue)
      [] op = "$in"  -> ~containsValue(opValue, docValue)
      [] op = "$nin" -> containsValue(opValue, docValue)
      [] OTHER       -> FALSE

\* for op, opValue := range opMap: the outcomes of the loop over the
\* operators not yet visited, "next" when the loop runs to its end
RECURSIVE OperatorLoop(_, _, _)
OperatorLoop(docValue, opMap, todo) ==
    IF todo = {} THEN {"next"}
    ELSE UNION { IF OperatorRejects(op, docValue, opMap[op])
                 THEN {"false"}
                 ELSE OperatorLoop(docValue, opMap, todo \ {op}) : op \in todo }

\* the branch for a key starting with '$' that is neither $and nor $or
UnknownOperator_Reject(key) == {"false"}

UnknownOperator(key) == {"next"}

RECURSIVE matchesFilter(_, _)
RECURSIVE FilterLoop(_, _, _)
RECURSIVE AndLoop(_, _, _)
RECURSIVE OrLoop(_, _, _)

\* the $and branch: for _, f := range filters, from index i on
AndLoop(d, filters, i) ==
    IF i > Len(filters) THEN {"next"}
    ELSE LET sub == matchesFilter(d, filters[i])
         IN  (sub \cap {"panic"})
             \cup (IF "false" \in sub THEN {"false"} ELSE {})
             \cup (IF "true" \in sub THEN AndLoop(d, filters, i + 1) ELSE {})

\* the $or branch: the loop sets matched and breaks on the first match;
\* "if !matched { return false }" after the loop
OrLoop(d, filters, i) ==
    IF i > Len(filters) THEN {"false"}
    ELSE LET sub == matchesFilter(d, filters[i])
         IN  (sub \cap {"panic"})
             \cup (IF "true" \in sub THEN {"next"} ELSE {})
             \cup (IF "false" \in sub THEN OrLoop(d, filters, i + 1) ELSE {})

\* the else branch: a field key
FieldMatch(d, key, value) ==
    LET docValue == Get(d, key)
    IN  IF value.k = "M"
        THEN OperatorLoop(docValue, value.v, DOMAIN value.v)
        ELSE IF DeepEqual(docValue, value) THEN {"next"} ELSE {"false"}

\* the body of "for key, value := range filter" for one key
FilterKey(d, key, value) ==
    IF key = "$and"
    THEN IF value.k # "Ms" THEN {"next"} ELSE AndLoop(d, value.v, 1)
    ELSE IF key = "$or"
    THEN IF value.k # "Ms" THEN {"next"} ELSE OrLoop(d, value.v, 1)
    ELSE IF FirstByte(key) = "none" THEN {"panic"}
    ELSE IF FirstByte(key) = "$" THEN UnknownOperator(key)
    ELSE FieldMatch(d, key, value)

\* the outcomes of the loop over the keys not yet visited
FilterLoop(d, f, todo) ==
    IF todo = {} THEN {"true"}
    ELSE UNION { LET step == FilterKey(d, key, f[key])
                 IN  (step \ {"next"})
                     \cup (IF "next" \in step
                           THEN FilterLoop(d, f, todo \ {key}) ELSE {})
                 : key \in todo }

\* the set of outcomes of matchesFilter(doc, filter) over all visiting
\* orders: "true", "false", or "panic" (runtime error, the call aborts)
matchesFilter(d, f) == FilterLoop(d, f, DOMAIN f)

----------------------------------------------------------------------------
(* Input universe of the filter evaluator *)

\* "a", "ab", "b" as byte sequences
Strings == {<<97>>, <<97, 98>>, <<98>>}

Scalars ==
    {Nil, V("bool", TRUE)}
    \cup {V("int", n) : n \in 1..MaxNum}
    \cup {V("float64", n) : n \in 1..MaxNum}
    \cup {V("string", s) : s \in Strings}

Elems == {Nil, V("float64", 1), V("string", <<97>>)}

SeqsUpTo(S, n) == UNION {[1..m -> S] : m \in 0..n}

Slices == {V("slice", s) : s \in SeqsUpTo(Elems, MaxLen)}

Maps == {V("map", <<>>),
         V("map", [x \in {"c"} |-> V("float64", 1)]),
         V("map", [x \in {"c"} |-> V("string", <<97>>)])}

DocValues == Scalars \cup Slices \cup Maps

\* documents hold field "a" with any value or not at all, and maybe "b"
Docs ==
    {<<>>, [x \in {"b"} |-> V("float64", 1)]}
    \cup {[x \in {"a"} |-> v] : v \in DocValues}
    \cup {[x \in {"a", "b"} |-> IF x = "a" THEN v ELSE V("float64", 1)] :
            v \in DocValues}

One(key, val) == [x \in {key} |-> val]

\* operands and literals a caller can write
Operands ==
    DocValues
    \cup {V("M", One("c", V("float64", 1))),
          V("Ms", <<One("c", V("float64", 1))>>)}

SmallOperands == {V("float64", 1), V("float64", 2), V("slice", <<V("float64", 1)>>)}

KnownOps == {"$eq", "$ne", "$gt", "$gte", "$lt", "$lte", "$in", "$nin"}

OrderingOps == {"$gt", "$gte", "$lt", "$lte"}

\* operator names a caller can write: the known ones, an unknown one and a
\* plain field name
OpNames == KnownOps \cup {"$regex", "c"}

OpMaps ==
    {<<>>}
    \cup {One(op, x) : op \in OpNames, x \in Operands}
    \cup UNION {{[o \in {op1, op2} |-> IF o = op1 THEN x1 ELSE x2] :
                    op2 \in OpNames \ {op1},
                    x1 \in SmallOperands, x2 \in SmallOperands} :
                 op1 \in OpNames}

FieldFilters == {One("a", x) : x \in Operands \cup {V("M", m) : m \in OpMaps}}

\* the filters used as conjuncts, disjuncts and siblings
SubFilters ==
    {<<>>,
     One("a", V("float64", 1)),
     One("a", V("M", One("$gt", V("float64", 1)))),
     One("b", V("float64", 1)),
     One("", V("float64", 1)),
     One("$future_op", Nil),
     One("$or", V("Ms", <<>>))}

LogicalOperands ==
    {V("Ms", fs) : fs \in SeqsUpTo(SubFilters, MaxConj)}
    \cup {Nil, V("slice", <<>>), V("M", One("a", V("float64", 1)))}

LogicalFilters == {One(key, x) : key \in {"$and", "$or"}, x \in LogicalOperands}

\* top-level keys with the sigil that are neither $and nor $or
UnknownTopKeys == {"$future_op", "$eq"}

Entries ==
    {<<"a", V("float64", 1)>>,
     <<"a", V("M", One("$gt", V("float64", 1)))>>,
     <<"a", V("M", One("$in", V("slice", <<V("float64", 1)>>)))>>,
     <<"b", V("float64", 1)>>,
     <<"", V("float64", 1)>>,
     <<"$future_op", Nil>>,
     <<"$future_op", V("Ms", <<One("a", V("float64", 2))>>)>>,
     <<"$eq", V("float64", 2)>>,
     <<"$and", V("Ms", <<One("a", V("float64", 1))>>)>>,
     <<"$and", V("Ms", <<One("", V("float64", 1))>>)>>,
     <<"$or", V("Ms", <<One("a", V("float64", 1)), One("b", V("float64", 1))>>)>>,
     <<"$or", V("slice", <<>>)>>}

\* the filter holding the given entries (distinct keys)
FilterOf(es) == [key \in {e[1] : e \in es} |-> (CHOOSE e \in es : e[1] = key)[2]]

MultiKeyFilters ==
    {FilterOf(es) : es \in {s \in SUBSET Entries :
        /\ Cardinality(s) \in {2, 3}
        /\ \A e1 \in s, e2 \in s : e1[1] = e2[1] => e1 = e2}}

Filters == FieldFilters \cup LogicalFilters \cup MultiKeyFilters

----------------------------------------------------------------------------
(* The filter evaluator as a state machine: one call of matchesFilter *)

InitFilter ==
    /\ pc = "call"
    /\ doc \in Docs
    /\ filter \in Filters
    /\ update = <<>>
    /\ result = "none"
    /\ updated = <<>>
    /\ again = <<>>
    /\ spare = <<>>
    /\ doc0 = doc
    /\ cursor = <<>>
    /\ ret = <<>>
    /\ store = <<>>
    /\ calls = <<>>
    /\ yielded = <<>>
    /\ callers = <<>>

CallMatchesFilter ==
    /\ pc = "call"
    /\ \E r \in matchesFilter(doc, filter) : result' = r
    /\ pc' = "done"
    /\ UNCHANGED <<doc, filter, update, updated, again, spare, doc0,
                   cursor, ret, store, calls, yielded, callers>>

NextFilter == CallMatchesFilter

SpecFilter == InitFilter /\ [][NextFilter]_vars

----------------------------------------------------------------------------
(* Properties of the filter evaluator, checked under SpecFilter *)

Done == pc = "done"

\* the filter has exactly one key, a field name
SingleField(f) ==
    /\ Cardinality(DOMAIN f) = 1
    /\ \A key \in DOMAIN f : FirstByte(key) = "other"

TheKey(f) == CHOOSE key \in DOMAIN f : TRUE

\* an operator mapping names at least one '$' operator
IsOperatorMap(x) == x.k = "M" /\ \E op \in DOMAIN x.v : FirstByte(op) = "$"

\* a literal: a value of any kind but M, or a nested mapping written as M
\* that has entries and names no operator
IsLiteral(x) ==
    \/ x.k # "M"
    \/ DOMAIN x.v # {} /\ \A key \in DOMAIN x.v : FirstByte(key) # "$"

IsLogical(f, key) == DOMAIN f = {key} /\ f[key].k = "Ms"

\* C1: matchesFilter is total: every call returns true or false and never
\* aborts, whatever the keys and operands of the filter are.
C1_Total == Done => result \in {"true", "false"}

\* the first conjunct of fs that returns false, 0 if there is none
FirstFailing(d, fs) ==
    IF \E i \in 1..Len(fs) : matchesFilter(d, fs[i]) = {"false"}
    THEN CHOOSE i \in 1..Len(fs) :
            /\ matchesFilter(d, fs[i]) = {"false"}
            /\ \A j \in 1..(i - 1) : matchesFilter(d, fs[j]) # {"false"}
    ELSE 0

Replace(fs, j, g) == [i \in 1..Len(fs) |-> IF i = j THEN g ELSE fs[i]]

\* C2: for a filter {"$and": [F1..Fn]}, the result is false whenever some Fi
\* does not match the document, and replacing a conjunct that comes after
\* the first failing one never changes the result.
C2_AndShortCircuit ==
    (Done /\ IsLogical(filter, "$and")) =>
        LET fs == filter["$and"].v
            i  == FirstFailing(doc, fs)
        IN  i > 0 =>
              /\ result = "false"
              /\ \A j \in (i + 1)..Len(fs), g \in SubFilters :
                    matchesFilter(doc, One("$and", V("Ms", Replace(fs, j, g))))
                        = matchesFilter(doc, filter)

\* C3: for a filter {"$or": [F1..Fn]}, n >= 0, the result is true if and
\* only if at least one Fi matches the document; an empty list matches no
\* document.
C3_OrDisjunction ==
    (Done /\ IsLogical(filter, "$or")) =>
        LET fs == filter["$or"].v
        IN  (result = "true") <=>
                (\E i \in 1..Len(fs) : matchesFilter(doc, fs[i]) = {"true"})

\* C4: a top-level key with the sigil that is neither $and nor $or does not
\* change the outcome: the filter with the key has exactly the outcomes of
\* the filter without it (so the key cannot reject a document, and cannot
\* abort a call that would not abort without it).
C4_UnknownKeySkipped ==
    Done => \A key \in DOMAIN filter \cap UnknownTopKeys :
                /\ matchesFilter(doc, filter) = matchesFilter(doc, Del(filter, key))
                /\ result \in matchesFilter(doc, Del(filter, key))

C4_Witness ==
    /\ Done
    /\ "$future_op" \in DOMAIN filter
    /\ "a" \in DOMAIN filter
    /\ result = "true"

\* C5: for a single field key with a literal value of any kind, the result
\* is true exactly when the literal equals the document's value of the
\* field (null when absent).
C5_LiteralEquality ==
    (Done /\ SingleField(filter) /\ IsLiteral(filter[TheKey(filter)])) =>
        ((result = "true") <=> (filter[TheKey(filter)] = Get(doc, TheKey(filter))))

\* C6: for a field key with an operator mapping, the result is true iff
\* every known operator of the mapping holds; one operator that does not
\* hold makes the filter return false, whatever the other keys are.
C6_OperatorConjunction ==
    Done =>
      /\ (SingleField(filter) /\ IsOperatorMap(filter[TheKey(filter)])) =>
            LET key == TheKey(filter)
            IN  (result = "true") <=>
                    \A op \in DOMAIN filter[key].v :
                        ~OperatorRejects(op, Get(doc, key), filter[key].v[op])
      /\ \A key \in DOMAIN filter :
            (/\ FirstByte(key) = "other"
             /\ IsOperatorMap(filter[key])
             /\ \E op \in DOMAIN filter[key].v :
                    OperatorRejects(op, Get(doc, key), filter[key].v[op]))
            => result = "false"

\* two numbers of the same concrete kind, or two strings
Orderable(a, b) == a.k = b.k /\ a.k \in {"int", "float64", "string"}

\* C7: an ordering operator ($gt, $gte, $lt, $lte) holds only for two
\* numbers of the same concrete kind or two strings; for every other
\* pairing, also of equal operands, it is false.
C7_OrderingTypeStrict ==
    (Done /\ SingleField(filter) /\ filter[TheKey(filter)].k = "M") =>
        LET key == TheKey(filter)
            m   == filter[key].v
        IN  \A op \in DOMAIN m \cap OrderingOps :
                result = "true" => Orderable(Get(doc, key), m[op])

\* membership as the specification states it
InHolds(x, val) ==
    /\ x.k \in {"slice", "Ms"}
    /\ \E i \in 1..Len(x.v) : (IF x.k = "Ms" THEN V("M", x.v[i]) ELSE x.v[i]) = val

\* C8: $in holds exactly when its operand is a sequence with an element
\* equal to the field's value (null when absent), and never for another
\* operand; $nin holds exactly when $in does not.
C8_Membership ==
    (Done /\ SingleField(filter) /\ filter[TheKey(filter)].k = "M") =>
        LET key == TheKey(filter)
            m   == filter[key].v
        IN  /\ DOMAIN m = {"$in"} =>
                ((result = "true") <=> InHolds(m["$in"], Get(doc, key)))
            /\ DOMAIN m = {"$nin"} =>
                ((result = "true") <=> ~InHolds(m["$nin"], Get(doc, key)))

C8_Witness ==
    /\ Done
    /\ DOMAIN filter = {"a"}
    /\ filter["a"].k = "M"
    /\ DOMAIN filter["a"].v = {"$in"}
    /\ filter["a"].v["$in"].k = "slice"
    /\ Len(filter["a"].v["$in"].v) = 2
    /\ filter["a"].v["$in"].v[1] # Get(doc, "a")
    /\ filter["a"].v["$in"].v[2] = Get(doc, "a")
    /\ result = "true"

\* C9: the outcome (true, false or abort) is a function of the document and
\* the filter: every visiting order of the keys gives the same outcome.
C9_OrderIndependent == Done => Cardinality(matchesFilter(doc, filter)) = 1

----------------------------------------------------------------------------
(* applyUpdate *)

(* The memory applyUpdate works on.  heap holds the map objects: "doc" is   *)
(* the caller's document, "copy" the map made at entry, "repl" the map made *)
(* in replacement mode; ref names the object the variable result refers to. *)
(* sp[k] holds the slots of the backing array of the caller's slice doc[k]  *)
(* beyond its length (cap - len of them); own is the set of fields of       *)
(* result that still hold the caller's slice, sharing that backing array.   *)
(* fin is "next" while the loop over the update runs, "return" or "panic"   *)
(* when the call has ended.                                                 *)

\* result := make(Document)
MakeDocument_Alias(d, sp) ==
    [heap |-> [doc |-> d, copy |-> <<>>, repl |-> <<>>], ref |-> "doc",
     sp |-> sp, own |-> {}, fin |-> "next"]

MakeDocument(d, sp) ==
    [heap |-> [doc |-> d, copy |-> <<>>, repl |-> <<>>], ref |-> "copy",
     sp |-> sp, own |-> {}, fin |-> "next"]

\* result[k] = v
Write(st, k, v) ==
    [st EXCEPT !.heap[st.ref] = Put(@, k, v), !.own = @ \ {k}]

\* delete(result, k)
Remove(st, k) ==
    [st EXCEPT !.heap[st.ref] = Del(@, k), !.own = @ \ {k}]

\* for k, v := range doc { result[k] = v }: the slices are copied by
\* reference, so every slice field of result shares the caller's array
CopyFields(st) ==
    LET d   == st.heap["doc"]
        cur == st.heap[st.ref]
    IN  [st EXCEPT
            !.heap[st.ref] = [x \in DOMAIN cur \cup DOMAIN d |->
                                 IF x \in DOMAIN d THEN d[x] ELSE cur[x]],
            !.own = {x \in DOMAIN d : d[x].k = "slice"}]

\* $inc of one field: only a float64 amount is applied
IncField(st, k, v) ==
    LET curr == Get(st.heap[st.ref], k)
    IN  IF v.k = "float64"
        THEN IF curr.k = "float64"
             THEN Write(st, k, V("float64", curr.v + v.v))
             ELSE Write(st, k, v)
        ELSE st

\* $push of one field: append(arr, v) writes in place into the backing
\* array when it has room beyond the slice's length, else into a new array
PushField(st, k, v) ==
    LET arr == Get(st.heap[st.ref], k)
    IN  IF arr.k = "slice"
        THEN IF k \in st.own /\ Len(st.sp[k]) > 0
             THEN [Write(st, k, V("slice", Append(arr.v, v)))
                      EXCEPT !.sp[k] = <<v>> \o Tail(@)]
             ELSE Write(st, k, V("slice", Append(arr.v, v)))
        ELSE Write(st, k, V("slice", <<v>>))

\* the body of the loop over the fields of one operator block
FieldStep(st, op, k, v) ==
    CASE op = "$set"   -> Write(st, k, v)
      [] op = "$unset" -> Remove(st, k)
      [] op = "$inc"   -> IncField(st, k, v)
      [] op = "$push"  -> PushField(st, k, v)

\* for k, v := range fields, over the fields not yet visited
RECURSIVE FieldsLoop(_, _, _, _)
FieldsLoop(st, op, fields, todo) ==
    IF todo = {} THEN {st}
    ELSE UNION {FieldsLoop(FieldStep(st, op, k, fields[k]), op, fields, todo \ {k}) :
                    k \in todo}

\* replacement mode: a fresh document with the original _id and then every
\* key of the update
Replacement(st, upd) ==
    LET id   == Get(st.heap["doc"], "_id")
        base == One("_id", id)
    IN  [st EXCEPT
            !.heap["repl"] = [x \in DOMAIN base \cup DOMAIN upd |->
                                 IF x \in DOMAIN upd THEN upd[x] ELSE base[x]],
            !.ref = "repl", !.own = {}, !.fin = "return"]

\* one case of the switch over the update's keys
UpdateOp(st, op, fields, upd) ==
    IF op \in {"$set", "$unset", "$inc", "$push"}
    THEN IF fields.k = "M"
         THEN FieldsLoop(st, op, fields.v, DOMAIN fields.v)
         ELSE {st}
    ELSE IF FirstByte(op) = "none" THEN {[st EXCEPT !.fin = "panic"]}
    ELSE IF FirstByte(op) # "$" THEN {Replacement(st, upd)}
    ELSE {st}

\* for op, fields := range update, over the keys not yet visited
RECURSIVE UpdateLoop(_, _, _)
UpdateLoop(st, upd, todo) ==
    IF st.fin # "next" THEN {st}
    ELSE IF todo = {} THEN {[st EXCEPT !.fin = "return"]}
    ELSE UNION {UNION {UpdateLoop(s, upd, todo \ {op}) :
                            s \in UpdateOp(st, op, upd[op], upd)} :
                    op \in todo}

\* the final memories of applyUpdate(doc, update) over all visiting orders;
\* the returned document is heap[ref] of a memory with fin = "return"
applyUpdate(d, sp, upd) ==
    UpdateLoop(CopyFields(MakeDocument(d, sp)), upd, DOMAIN upd)

----------------------------------------------------------------------------
(* Input universe of the update applier *)

\* the identities "i" and "j"
IdI == V("string", <<105>>)
IdJ == V("string", <<106>>)

\* values of the fields of a stored document
UpdDocValues ==
    {Nil, V("int", 1), V("string", <<97>>)}
    \cup {V("float64", n) : n \in 1..MaxNum}
    \cup Slices

\* documents with an identity, field "a" with any value or not at all, and
\* maybe a field "b"
UpdDocs ==
    LET as == {<<>>} \cup {One("a", v) : v \in UpdDocValues}
        bs == {<<>>, One("b", V("float64", 1)), One("b", V("slice", <<V("string", <<97>>)>>))}
    IN  {[x \in {"_id"} \cup DOMAIN a \cup DOMAIN b |->
             IF x = "_id" THEN IdI ELSE IF x = "a" THEN a["a"] ELSE b["b"]] :
            a \in as, b \in bs}

\* the unused slots of the backing arrays of the slices of d: up to MaxSpare
\* slots per slice, zeroed
Spares(d) ==
    [{x \in DOMAIN d : d[x].k = "slice"} -> {[i \in 1..n |-> Nil] : n \in 0..MaxSpare}]

UpdValues ==
    {Nil, V("int", 1), V("string", <<97>>), V("slice", <<V("float64", 1)>>)}
    \cup {V("float64", n) : n \in 1..MaxNum}

SmallUpdValues == {V("float64", 1), V("string", <<97>>)}

UpdFields == {"a", "b", "_id"}

FieldMaps ==
    {<<>>}
    \cup {One(k, v) : k \in UpdFields, v \in UpdValues}
    \cup UNION {{[x \in {k1, k2} |-> IF x = k1 THEN v1 ELSE v2] :
                    k2 \in UpdFields \ {k1},
                    v1 \in SmallUpdValues, v2 \in SmallUpdValues} :
                 k1 \in UpdFields}

SmallFieldMaps ==
    {One("a", V("float64", 1)), One("a", V("string", <<97>>)),
     One("b", V("float64", 1)), One("_id", IdJ)}

UpdateOps == {"$set", "$unset", "$inc", "$push"}

OperatorUpdates ==
    {One(op, V("M", m)) : op \in UpdateOps \cup {"$rename"}, m \in FieldMaps}
    \cup {One(op, V("float64", 1)) : op \in UpdateOps}
    \cup UNION {{[o \in {op1, op2} |-> IF o = op1 THEN V("M", m1) ELSE V("M", m2)] :
                    op2 \in UpdateOps \ {op1},
                    m1 \in SmallFieldMaps, m2 \in SmallFieldMaps} :
                 op1 \in UpdateOps}

UpdateEntries ==
    {<<"b", V("float64", 2)>>,
     <<"a", V("slice", <<V("float64", 1)>>)>>,
     <<"_id", IdJ>>,
     <<"", Nil>>,
     <<"$set", V("M", One("a", V("float64", 1)))>>,
     <<"$inc", V("M", One("b", V("float64", 1)))>>}

\* updates with at least one key without the sigil
ReplacementUpdates ==
    {FilterOf(es) : es \in {s \in SUBSET UpdateEntries :
        /\ Cardinality(s) \in {1, 2, 3}
        /\ \E e \in s : FirstByte(e[1]) # "$"}}

Updates == {<<>>} \cup OperatorUpdates \cup ReplacementUpdates

----------------------------------------------------------------------------
(* The update applier as a state machine: one call of applyUpdate *)

InitUpdate ==
    /\ pc = "call"
    /\ doc \in UpdDocs
    /\ filter = <<>>
    /\ update \in Updates
    /\ result = "none"
    /\ updated = <<>>
    /\ again = <<>>
    /\ spare \in Spares(doc)
    /\ doc0 = doc
    /\ cursor = <<>>
    /\ ret = <<>>
    /\ store = <<>>
    /\ calls = <<>>
    /\ yielded = <<>>
    /\ callers = <<>>

CallApplyUpdate ==
    /\ pc = "call"
    /\ \E st \in applyUpdate(doc, spare, update) :
          /\ doc' = st.heap["doc"]
          /\ spare' = st.sp
          /\ IF st.fin = "panic"
             THEN pc' = "panic" /\ updated' = <<>>
             ELSE pc' = "done" /\ updated' = st.heap[st.ref]
    /\ UNCHANGED <<filter, update, result, again, doc0, cursor, ret, store, calls,
                   yielded, callers>>

\* the arrays of a document whose slices have no room beyond their length
NoSpare(d) == [x \in {y \in DOMAIN d : d[y].k = "slice"} |-> <<>>]

\* the outcome of a call: the returned document, or the abort
Returned(st) ==
    [fin |-> st.fin, ret |-> IF st.fin = "panic" THEN <<>> ELSE st.heap[st.ref]]

\* applyUpdate(applyUpdate(doc, update), update): the second call, on the
\* document the first call returned
CallApplyAgain ==
    /\ pc = "done"
    /\ \E st \in applyUpdate(updated, NoSpare(updated), update) :
          IF st.fin = "panic"
          THEN pc' = "panic2" /\ again' = <<>>
          ELSE pc' = "done2" /\ again' = st.heap[st.ref]
    /\ UNCHANGED <<doc, filter, update, result, updated, spare, doc0,
                   cursor, ret, store, calls, yielded, callers>>

NextUpdate == CallApplyUpdate \/ CallApplyAgain

SpecUpdate == InitUpdate /\ [][NextUpdate]_vars

----------------------------------------------------------------------------
(* Properties of the update applier, checked under SpecUpdate *)

\* C10: applyUpdate never changes its input: when it has returned, the
\* caller's document has exactly the fields and values it had before the
\* call, the elements of a slice targeted by $push included.
C10_InputUnchanged == pc = "done" => doc = doc0

\* a $push onto a slice field with room in its backing array has returned:
\* the pushed value sits in the caller's array, beyond the slice's length
C10_Witness ==
    /\ pc = "done"
    /\ DOMAIN update = {"$push"}
    /\ update["$push"].k = "M"
    /\ DOMAIN update["$push"].v = {"a"}
    /\ update["$push"].v["a"] # Nil
    /\ Get(doc0, "a").k = "slice"
    /\ Len(Get(doc0, "a").v) = 1
    /\ updated["a"] = V("slice", Append(doc0["a"].v, update["$push"].v["a"]))
    /\ Len(spare["a"]) > 0
    /\ spare["a"][1] = update["$push"].v["a"]


\* C11: the "_id" of the document applyUpdate returns is the "_id" of its
\* input, for operator updates and for replacements, also when they name
\* "_id".
C11_IdentityPreserved == pc = "done" => Get(updated, "_id") = Get(doc0, "_id")

\* the keys of the update without the sigil
PlainKeys(upd) == {key \in DOMAIN upd : FirstByte(key) # "$"}

\* C12: when a key of the update has no sigil, the returned document holds
\* exactly the original "_id" and the update's keys without the sigil, with
\* their values; the keys with the sigil leave no trace.  (An "_id" key of
\* the update is read here as one of the update's keys.)
C12_ReplacementExact ==
    (pc = "done" /\ PlainKeys(update) # {}) =>
        /\ DOMAIN updated = {"_id"} \cup PlainKeys(update)
        /\ "_id" \notin DOMAIN update => updated["_id"] = Get(doc0, "_id")
        /\ \A key \in PlainKeys(update) : updated[key] = update[key]

SetOnly(upd) == DOMAIN upd = {"$set"}

\* a nonzero amount: a number of either kind
IncOnly(upd) ==
    /\ DOMAIN upd = {"$inc"}
    /\ upd["$inc"].k = "M"
    /\ Cardinality(DOMAIN upd["$inc"].v) = 1
    /\ \A key \in DOMAIN upd["$inc"].v :
          upd["$inc"].v[key].k \in {"int", "float64"} /\ upd["$inc"].v[key].v # 0

PushOnly(upd) ==
    /\ DOMAIN upd = {"$push"}
    /\ upd["$push"].k = "M"
    /\ Cardinality(DOMAIN upd["$push"].v) = 1

\* C13: applying an update twice gives the result of applying it once when
\* it holds only $set or is a replacement; for {"$inc": {k: n}}, n nonzero,
\* and for {"$push": {k: v}} the two results differ.
C13_Idempotence ==
    pc = "done2" =>
        /\ (SetOnly(update) \/ PlainKeys(update) # {}) => again = updated
        /\ (IncOnly(update) \/ PushOnly(update)) => again # updated

\* C14: for an update of several operator blocks, every order in which the
\* blocks are visited returns the same document.
C14_OrderIndependent ==
    (pc = "done" /\ DOMAIN update \subseteq UpdateOps) =>
        Cardinality({Returned(st) : st \in applyUpdate(doc0, spare, update)}) = 1

\* a Go number of any kind
IsNumber(x) == x.k \in {"int", "float64"}

\* C27: for an update {"$inc": {k: n}} with a number n of any kind, the
\* result holds in k the current value plus n when the current value of k is
\* a number, and n itself when k is absent or holds something else; every
\* other field is as it was in the document.
C27_Increment ==
    (pc = "done" /\ DOMAIN update = {"$inc"} /\ update["$inc"].k = "M"
       /\ Cardinality(DOMAIN update["$inc"].v) = 1) =>
        \A key \in DOMAIN update["$inc"].v :
            LET n == update["$inc"].v[key]
                cur == Get(doc0, key)
            IN  IsNumber(n) =>
                   /\ key \in DOMAIN updated
                   /\ IsNumber(updated[key])
                   /\ updated[key].v = IF IsNumber(cur) THEN cur.v + n.v ELSE n.v
                   /\ \A other \in (DOMAIN doc0 \cup DOMAIN updated) \ {key} :
                         other \in DOMAIN doc0 /\ other \in DOMAIN updated
                         /\ updated[other] = doc0[other]

----------------------------------------------------------------------------
(* The JSON round trip json.Unmarshal(json.Marshal(x)) into an interface{}:
   every number comes back as a float64, every map as a
   map[string]interface{}, every slice as a []interface{} *)

RECURSIVE JSONValue(_), JSONDoc(_)
JSONValue(x) ==
    CASE x.k = "int" -> V("float64", x.v)
      [] x.k = "slice" -> V("slice", [i \in DOMAIN x.v |-> JSONValue(x.v[i])])
      [] x.k = "Ms" -> V("slice", [i \in DOMAIN x.v |-> V("map", JSONDoc(x.v[i]))])
      [] x.k \in {"map", "M"} -> V("map", JSONDoc(x.v))
      [] OTHER -> x

JSONDoc(d) == [key \in DOMAIN d |-> JSONValue(d[key])]

----------------------------------------------------------------------------
(* Cursor *)

NewCursor(docs) == [documents |-> docs, index |-> 0, limit |-> -1, skip |-> 0]

Limit(c, n) == [c EXCEPT !.limit = n]

Skip(c, n) == [c EXCEPT !.skip = n]

\* docs[from:] and docs[:to] of a Go slice
SliceFrom(docs, from) == SubSeq(docs, from + 1, Len(docs))
SliceTo(docs, to) == SubSeq(docs, 1, to)

\* All without the limit step
All_NoLimit(c) ==
    IF c.skip > 0 /\ c.skip < Len(c.documents)
    THEN SliceFrom(c.documents, c.skip)
    ELSE IF c.skip >= Len(c.documents) THEN <<>> ELSE c.documents

All(c) ==
    LET skipped == IF c.skip > 0 /\ c.skip < Len(c.documents)
                   THEN SliceFrom(c.documents, c.skip)
                   ELSE IF c.skip >= Len(c.documents) THEN <<>> ELSE c.documents
    IN  IF c.limit >= 0 /\ c.limit < Len(skipped)
        THEN SliceTo(skipped, c.limit)
        ELSE skipped

\* Next that looks at all documents instead of the window
Next_NoWindow(c) == c.index < Len(c.documents)

\* the value Next returns; Next assigns no field of the cursor
Next(c) == c.index < Len(All(c))

\* the targets of Decode: a pointer to a map[string]interface{}, which
\* json.Unmarshal fills, and a non-pointer value, which json.Unmarshal
\* rejects with an InvalidUnmarshalError
Targets == {"pointer", "value"}

\* Decode that leaves the position where it is
Decode_NoAdvance(c, target) ==
    IF c.index >= Len(All(c))
    THEN [c |-> c, val |-> "cursor exhausted", docs |-> <<>>]
    ELSE IF target = "pointer"
         THEN [c |-> c, val |-> "nil", docs |-> <<JSONDoc(All(c)[c.index + 1])>>]
         ELSE [c |-> c, val |-> "unmarshal error", docs |-> <<>>]

\* Decode: the cursor after the call, the returned error and what the target
\* holds; the documents of the model hold JSON-encodable values only, so
\* json.Marshal does not fail
Decode(c, target) ==
    IF c.index >= Len(All(c))
    THEN [c |-> c, val |-> "cursor exhausted", docs |-> <<>>]
    ELSE LET d == All(c)[c.index + 1]
             c2 == [c EXCEPT !.index = c.index + 1]
         IN  IF target = "pointer"
             THEN [c |-> c2, val |-> "nil", docs |-> <<JSONDoc(d)>>]
             ELSE [c |-> c2, val |-> "unmarshal error", docs |-> <<>>]

----------------------------------------------------------------------------
(* The cursor as a state machine: a cursor and calls of its methods *)

\* the documents a cursor is made over
CursorDocs == {[x \in {"_id"} |-> IdI], [x \in {"_id", "a"} |-> IF x = "_id" THEN IdJ ELSE V("int", 1)]}

\* the arguments given to Skip and Limit
Args == -1..MaxArg

Call(op, arg, target, val, docs) ==
    [op |-> op, arg |-> arg, target |-> target, val |-> val, docs |-> docs,
     before |-> cursor]

InitCursor ==
    /\ pc = "cursor"
    /\ doc = <<>>
    /\ filter = <<>>
    /\ update = <<>>
    /\ result = "none"
    /\ updated = <<>>
    /\ again = <<>>
    /\ spare = <<>>
    /\ doc0 = <<>>
    /\ \E docs \in SeqsUpTo(CursorDocs, MaxDocs) : cursor = NewCursor(docs)
    /\ ret = [op |-> "NewCursor", arg |-> 0, target |-> "none", val |-> "none",
              docs |-> <<>>, before |-> <<>>]
    /\ store = <<>>
    /\ calls = <<>>
    /\ yielded = <<>>
    /\ callers = <<>>

CallSkip ==
    /\ pc = "cursor"
    /\ \E n \in Args :
          /\ cursor' = Skip(cursor, n)
          /\ ret' = Call("Skip", n, "none", "none", <<>>)
    /\ UNCHANGED <<pc, doc, filter, update, result, updated, again, spare, doc0,
                   store, calls, yielded, callers>>

CallLimit ==
    /\ pc = "cursor"
    /\ \E n \in Args :
          /\ cursor' = Limit(cursor, n)
          /\ ret' = Call("Limit", n, "none", "none", <<>>)
    /\ UNCHANGED <<pc, doc, filter, update, result, updated, again, spare, doc0,
                   store, calls, yielded, callers>>

CallAll ==
    /\ pc = "cursor"
    /\ ret' = Call("All", 0, "none", "nil", All(cursor))
    /\ UNCHANGED <<pc, doc, filter, update, result, updated, again, spare, doc0,
                   cursor, store, calls, yielded, callers>>

CallNext ==
    /\ pc = "cursor"
    /\ ret' = Call("Next", 0, "none", IF Next(cursor) THEN "true" ELSE "false", <<>>)
    /\ UNCHANGED <<pc, doc, filter, update, result, updated, again, spare, doc0,
                   cursor, store, calls, yielded, callers>>

CallDecode ==
    /\ pc = "cursor"
    /\ \E target \in Targets :
          LET r == Decode(cursor, target)
          IN  /\ cursor' = r.c
              /\ ret' = Call("Decode", 0, target, r.val, r.docs)
    /\ UNCHANGED <<pc, doc, filter, update, result, updated, again, spare, doc0,
                   store, calls, yielded, callers>>

NextCursor == CallSkip \/ CallLimit \/ CallAll \/ CallNext \/ CallDecode

SpecCursor == InitCursor /\ [][NextCursor]_vars

----------------------------------------------------------------------------
(* Properties of the cursor, checked under SpecCursor *)

Min(a, b) == IF a < b THEN a ELSE b
Max(a, b) == IF a > b THEN a ELSE b

\* C15: when All has returned on a cursor over N documents whose skip s and
\* limit l are both at least 0, it has returned max(0, min(l, N - s))
\* documents, the underlying documents s, s+1, ... in order, and the cursor
\* (documents, position, limit, skip) is as it was before the call.
C15_Pagination ==
    (ret.op = "All" /\ cursor.skip >= 0 /\ cursor.limit >= 0) =>
        LET n == Max(0, Min(cursor.limit, Len(cursor.documents) - cursor.skip))
        IN  /\ ret.val = "nil"
            /\ ret.docs = [i \in 1..n |-> cursor.documents[cursor.skip + i]]
            /\ cursor = ret.before

\* All has returned a window that starts after the first document and is cut
\* by the limit, on a cursor whose position has already moved
C15_Witness ==
    /\ ret.op = "All"
    /\ cursor.skip > 0
    /\ cursor.limit > 0
    /\ cursor.limit < Len(cursor.documents) - cursor.skip
    /\ Len(ret.docs) = cursor.limit
    /\ cursor.index > 0

\* C16 as stated: Decode returns an error and leaves the position unchanged
\* when the position is at or beyond the end of the window, and otherwise it
\* returns no error and moves the position forward by one.
C16_DecodeSucceeds ==
    ret.op = "Decode" =>
        IF ret.before.index >= Len(All(ret.before))
        THEN ret.val # "nil" /\ cursor.index = ret.before.index
        ELSE ret.val = "nil" /\ cursor.index = ret.before.index + 1

\* C16: Decode returns the error "cursor exhausted" and leaves the position
\* unchanged when the position is at or beyond the end of the window;
\* otherwise it moves the position forward by one, and it returns no error
\* exactly when the target is one the document can be decoded into.
C16_DecodePosition ==
    ret.op = "Decode" =>
        IF ret.before.index >= Len(All(ret.before))
        THEN ret.val = "cursor exhausted" /\ cursor.index = ret.before.index
        ELSE /\ cursor.index = ret.before.index + 1
             /\ ret.val = "nil" <=> ret.target = "pointer"
             /\ ret.val # "nil" => ret.val = "unmarshal error"

\* Decode has failed on a current document: the target was rejected and the
\* position has moved
C16_Witness ==
    /\ ret.op = "Decode"
    /\ ret.before.index < Len(All(ret.before))
    /\ ret.val = "unmarshal error"
    /\ cursor.index = ret.before.index + 1

\* C17: a call of Next that returns true moves the position one document
\* forward.
C17_NextAdvances ==
    (ret.op = "Next" /\ ret.val = "true") => cursor.index = ret.before.index + 1

----------------------------------------------------------------------------
(* The store behind the cgo boundary.  A memory m holds the collection
   (store, in scan order) and the calls issued so far (calls).  A fault
   makes the call number fault.at fail: a NULL reply or a zero count
   ("null"), or a reply that is not the JSON expected ("garbage"). *)

NoFault == [at |-> 0, how |-> "null"]

Faults ==
    {NoFault}
    \cup {[at |-> k, how |-> "null"] : k \in 1..MaxFaultAt}
    \cup {[at |-> 1, how |-> "garbage"]}

Failing(m, fault) == Len(m.calls) + 1 = fault.at

Log(m, op, id, payload, ok) ==
    [m EXCEPT !.calls = Append(@, [op |-> op, id |-> id, payload |-> payload, ok |-> ok])]

\* the positions of the stored documents with identity id
Position(docs, id) == {i \in DOMAIN docs : docs[i]["_id"] = V("string", id)}

keradb_find_by_id(m, id, fault) ==
    IF Failing(m, fault)
    THEN [m |-> Log(m, "find_by_id", id, <<>>, FALSE), reply |-> fault.how, doc |-> <<>>]
    ELSE IF Position(m.store, id) = {}
         THEN [m |-> Log(m, "find_by_id", id, <<>>, TRUE), reply |-> "null", doc |-> <<>>]
         ELSE [m |-> Log(m, "find_by_id", id, <<>>, TRUE), reply |-> "json",
               doc |-> m.store[CHOOSE i \in Position(m.store, id) : TRUE]]

keradb_find_all(m, fault) ==
    IF Failing(m, fault)
    THEN [m |-> Log(m, "find_all", <<>>, <<>>, FALSE), reply |-> fault.how, docs |-> <<>>]
    ELSE [m |-> Log(m, "find_all", <<>>, <<>>, TRUE), reply |-> "json", docs |-> m.store]

\* the stored document with identity id is replaced by the payload, as the
\* store decodes it, under the same identity
keradb_update(m, id, payload, fault) ==
    IF Failing(m, fault) \/ Position(m.store, id) = {}
    THEN [m |-> Log(m, "update", id, payload, FALSE), reply |-> "null"]
    ELSE [m |-> [Log(m, "update", id, payload, TRUE) EXCEPT
                    !.store = [i \in DOMAIN m.store |->
                        IF i \in Position(m.store, id)
                        THEN Put(JSONDoc(payload), "_id", V("string", id))
                        ELSE m.store[i]]],
          reply |-> "json"]

keradb_delete(m, id, fault) ==
    IF Failing(m, fault) \/ Position(m.store, id) = {}
    THEN [m |-> Log(m, "delete", id, <<>>, FALSE), count |-> 0]
    ELSE [m |-> [Log(m, "delete", id, <<>>, TRUE) EXCEPT
                    !.store = SelectSeq(m.store, LAMBDA d : d["_id"] # V("string", id))],
          count |-> 1]

----------------------------------------------------------------------------
(* Collection.  Every operation yields the set of its outcomes, one per
   visiting order of the maps it ranges over: the memory after it, how it
   ended (fin: "ok", or "panic" for a run-time panic) and what it returned. *)

\* Document.ID
ID(d) == IF Get(d, "_id").k = "string" THEN d["_id"].v ELSE <<>>

\* a filtering loop that keeps every document
FilterDocs_KeepAll(docs, f) == {[fin |-> "ok", docs |-> docs]}

\* the filtering loop of Find
RECURSIVE FilterDocs(_, _)
FilterDocs(docs, f) ==
    IF docs = <<>>
    THEN {[fin |-> "ok", docs |-> <<>>]}
    ELSE UNION {IF r = "panic"
                THEN {[fin |-> "panic", docs |-> <<>>]}
                ELSE {[fin |-> t.fin,
                       docs |-> IF t.fin = "panic" THEN <<>>
                                ELSE IF r = "true" THEN <<Head(docs)>> \o t.docs
                                ELSE t.docs] : t \in FilterDocs(Tail(docs), f)}
               : r \in matchesFilter(Head(docs), f)}

Find(m, f, fault) ==
    LET r == keradb_find_all(m, fault)
    IN  IF r.reply # "json"
        THEN {[m |-> r.m, fin |-> "ok", cursor |-> NewCursor(<<>>)]}
        ELSE IF DOMAIN f = {}
             THEN {[m |-> r.m, fin |-> "ok", cursor |-> NewCursor(r.docs)]}
             ELSE {[m |-> r.m, fin |-> t.fin, cursor |-> NewCursor(t.docs)] :
                      t \in FilterDocs(r.docs, f)}

\* the condition of the point-lookup of FindOne, without the test of the
\* number of keys
IsIDLookup_AnyLen(f) == Get(f, "_id").k = "string"

\* id, ok := filter["_id"].(string); ok && len(filter) == 1
IsIDLookup(f) == Get(f, "_id").k = "string" /\ Cardinality(DOMAIN f) = 1

Single(m, fin, found, d, err) ==
    [m |-> m, fin |-> fin, found |-> found, doc |-> d, err |-> err]

FindOne(m, f, fault) ==
    IF IsIDLookup(f)
    THEN LET r == keradb_find_by_id(m, f["_id"].v, fault)
         IN  IF r.reply = "null" THEN {Single(r.m, "ok", FALSE, <<>>, "nil")}
             ELSE IF r.reply = "garbage"
                  THEN {Single(r.m, "ok", FALSE, <<>>, "unmarshal error")}
                  ELSE {Single(r.m, "ok", TRUE, r.doc, "nil")}
    ELSE {IF t.fin = "panic" THEN Single(t.m, "panic", FALSE, <<>>, "nil")
          ELSE LET docs == All(Limit(t.cursor, 1))
               IN  IF Len(docs) = 0 THEN Single(t.m, "ok", FALSE, <<>>, "nil")
                   ELSE Single(t.m, "ok", TRUE, docs[1], "nil")
          : t \in Find(m, f, fault)}

\* what a write operation returns: has tells whether the result is non-nil
Res(m, fin, has, matched, modified, deleted, err) ==
    [m |-> m, fin |-> fin, has |-> has, matched |-> matched, modified |-> modified,
     deleted |-> deleted, err |-> err]

UpdateOne(m, f, upd, fault) ==
    UNION {IF r.fin = "panic" THEN {Res(r.m, "panic", FALSE, 0, 0, 0, "nil")}
           ELSE IF r.err # "nil" THEN {Res(r.m, "ok", FALSE, 0, 0, 0, r.err)}
           ELSE IF ~r.found THEN {Res(r.m, "ok", TRUE, 0, 0, 0, "nil")}
           ELSE {IF st.fin = "panic" THEN Res(r.m, "panic", FALSE, 0, 0, 0, "nil")
                 ELSE LET updatedDoc == Del(st.heap[st.ref], "_id")
                          w == keradb_update(r.m, ID(r.doc), updatedDoc, fault)
                      IN  IF w.reply = "null"
                          THEN Res(w.m, "ok", FALSE, 0, 0, 0, "update failed")
                          ELSE Res(w.m, "ok", TRUE, 1, 1, 0, "nil")
                 : st \in applyUpdate(r.doc, NoSpare(r.doc), upd)}
          : r \in FindOne(m, f, fault)}

\* the loop of UpdateMany over the documents found
RECURSIVE UpdateManyLoop(_, _, _, _, _, _)
UpdateManyLoop(m, docs, upd, fault, modifiedCount, matched) ==
    IF docs = <<>>
    THEN {Res(m, "ok", TRUE, matched, modifiedCount, 0, "nil")}
    ELSE UNION {IF r.fin = "panic" THEN {Res(r.m, "panic", FALSE, 0, 0, 0, "nil")}
                ELSE IF r.err # "nil" THEN {Res(r.m, "ok", FALSE, 0, 0, 0, r.err)}
                ELSE UpdateManyLoop(r.m, Tail(docs), upd, fault, modifiedCount + 1, matched)
               : r \in UpdateOne(m, One("_id", V("string", ID(Head(docs)))), upd, fault)}

UpdateMany(m, f, upd, fault) ==
    UNION {IF t.fin = "panic" THEN {Res(t.m, "panic", FALSE, 0, 0, 0, "nil")}
           ELSE UpdateManyLoop(t.m, All(t.cursor), upd, fault, 0, Len(All(t.cursor)))
          : t \in Find(m, f, fault)}

DeleteOne(m, f, fault) ==
    {IF r.fin = "panic" THEN Res(r.m, "panic", FALSE, 0, 0, 0, "nil")
     ELSE IF r.err # "nil" THEN Res(r.m, "ok", FALSE, 0, 0, 0, r.err)
     ELSE IF ~r.found THEN Res(r.m, "ok", TRUE, 0, 0, 0, "nil")
     ELSE LET d == keradb_delete(r.m, ID(r.doc), fault)
          IN  Res(d.m, "ok", TRUE, 0, 0, d.count, "nil")
     : r \in FindOne(m, f, fault)}

\* the loop of DeleteMany over the documents found
RECURSIVE DeleteManyLoop(_, _, _, _)
DeleteManyLoop(m, docs, fault, deletedCount) ==
    IF docs = <<>>
    THEN {Res(m, "ok", TRUE, 0, 0, deletedCount, "nil")}
    ELSE UNION {IF r.fin = "panic" THEN {Res(r.m, "panic", FALSE, 0, 0, 0, "nil")}
                ELSE IF r.err # "nil" THEN {Res(r.m, "ok", FALSE, 0, 0, 0, r.err)}
                ELSE DeleteManyLoop(r.m, Tail(docs), fault, deletedCount + r.deleted)
               : r \in DeleteOne(m, One("_id", V("string", ID(Head(docs)))), fault)}

DeleteMany(m, f, fault) ==
    UNION {IF t.fin = "panic" THEN {Res(t.m, "panic", FALSE, 0, 0, 0, "nil")}
           ELSE DeleteManyLoop(t.m, All(t.cursor), fault, 0)
          : t \in Find(m, f, fault)}

----------------------------------------------------------------------------
(* Input universe of the collection *)

\* the identities the store has given out: "i", "j", ...
StoreIds == {V("string", <<104 + n>>) : n \in 1..MaxStored}

\* a stored document: its identity, and maybe a number in field "a"
StoredDocs(id) ==
    {[x \in {"_id"} |-> id]}
    \cup {[x \in {"_id", "a"} |-> IF x = "_id" THEN id ELSE V("float64", n)] : n \in {1, 2}}

\* the collections: stored documents with distinct identities, in any order
Stores ==
    {docs \in SeqsUpTo(UNION {StoredDocs(id) : id \in StoreIds}, MaxStored) :
        \A i \in DOMAIN docs, j \in DOMAIN docs : docs[i]["_id"] = docs[j]["_id"] => i = j}

StoreFilters ==
    {<<>>,
     One("_id", IdI),
     One("_id", IdJ),
     One("_id", V("string", <<>>)),
     One("_id", V("float64", 1)),
     One("_id", V("M", One("$ne", IdI))),
     One("a", V("float64", 1)),
     [x \in {"_id", "a"} |-> IF x = "_id" THEN IdI ELSE V("float64", 1)],
     One("b", V("float64", 1)),
     One("", V("float64", 1))}

StoreUpdates ==
    {One("$set", V("M", One("a", V("float64", 2)))),
     One("$inc", V("M", One("a", V("float64", 1)))),
     One("$set", V("M", One("_id", IdJ))),
     One("b", V("float64", 2)),
     One("", Nil)}

----------------------------------------------------------------------------
(* Inserting and counting *)

\* the identities the store has not given out
FreeIds(docs) == {id \in StoreIds : \A i \in DOMAIN docs : docs[i]["_id"] # id}

\* the store appends the payload, as it decodes it, under an identity of its
\* choice; it fails when it has no identity left
keradb_insert(m, payload, fault) ==
    IF Failing(m, fault) \/ FreeIds(m.store) = {}
    THEN {[m |-> Log(m, "insert", <<>>, payload, FALSE), reply |-> "null", id |-> <<>>]}
    ELSE {[m |-> [Log(m, "insert", id.v, payload, TRUE) EXCEPT
                     !.store = Append(@, Put(JSONDoc(payload), "_id", id))],
           reply |-> "id", id |-> id.v] : id \in FreeIds(m.store)}

\* a failed count is answered by 0
keradb_count(m, fault) ==
    IF Failing(m, fault)
    THEN [m |-> Log(m, "count", <<>>, <<>>, FALSE), count |-> 0]
    ELSE [m |-> Log(m, "count", <<>>, <<>>, TRUE), count |-> Len(m.store)]

\* json.Marshal succeeds on the document: it holds no function value
Encodable(d) == \A key \in DOMAIN d : d[key].k # "func"

Inserted(m, fin, has, ids, err) ==
    [m |-> m, fin |-> fin, has |-> has, ids |-> ids, err |-> err]

InsertOne(m, d, fault) ==
    IF ~Encodable(d)
    THEN {Inserted(m, "ok", FALSE, <<>>, "failed to marshal document")}
    ELSE {IF r.reply = "null"
          THEN Inserted(r.m, "ok", FALSE, <<>>, "insert failed")
          ELSE Inserted(r.m, "ok", TRUE, <<r.id>>, "nil")
          : r \in keradb_insert(m, d, fault)}

\* the loop of InsertMany, going on after a failed insert
RECURSIVE InsertManyLoop_Continue(_, _, _, _)
InsertManyLoop_Continue(m, docs, fault, insertedIDs) ==
    IF docs = <<>>
    THEN {Inserted(m, "ok", TRUE, insertedIDs, "nil")}
    ELSE UNION {InsertManyLoop_Continue(r.m, Tail(docs), fault, insertedIDs \o r.ids)
               : r \in InsertOne(m, Head(docs), fault)}

\* the loop of InsertMany over the documents given
RECURSIVE InsertManyLoop(_, _, _, _)
InsertManyLoop(m, docs, fault, insertedIDs) ==
    IF docs = <<>>
    THEN {Inserted(m, "ok", TRUE, insertedIDs, "nil")}
    ELSE UNION {IF r.err # "nil" THEN {Inserted(r.m, "ok", FALSE, <<>>, r.err)}
                ELSE InsertManyLoop(r.m, Tail(docs), fault, insertedIDs \o r.ids)
               : r \in InsertOne(m, Head(docs), fault)}

InsertMany(m, docs, fault) == InsertManyLoop(m, docs, fault, <<>>)

Counted(m, fin, count, err) == [m |-> m, fin |-> fin, count |-> count, err |-> err]

CountDocuments(m, f, fault) ==
    IF DOMAIN f = {}
    THEN LET r == keradb_count(m, fault) IN {Counted(r.m, "ok", r.count, "nil")}
    ELSE {IF t.fin = "panic" THEN Counted(t.m, "panic", 0, "nil")
          ELSE Counted(t.m, "ok", Len(All(t.cursor)), "nil")
          : t \in Find(m, f, fault)}

\* the documents given to InsertOne and InsertMany
InsertDocs == {One("a", V("int", 1)), One("a", V("float64", 2)), One("f", V("func", 0))}

----------------------------------------------------------------------------
(* The collection as a state machine: a collection in the store and one
   call of an operation on it *)

NoDoc == [found |-> FALSE, docs |-> <<>>, ids |-> <<>>, count |-> 0, input |-> <<>>]

InitStore ==
    /\ pc = "store"
    /\ doc = <<>>
    /\ filter = <<>>
    /\ update = <<>>
    /\ result = "none"
    /\ updated = <<>>
    /\ again = <<>>
    /\ spare = <<>>
    /\ doc0 = <<>>
    /\ cursor = <<>>
    /\ ret = <<>>
    /\ store \in Stores
    /\ calls = <<>>
    /\ yielded = <<>>
    /\ callers = <<>>

\* the call op(f, upd) has ended with outcome r; d is what a read found
Return(op, f, upd, fault, r, d) ==
    /\ pc' = IF r.fin = "panic" THEN "panicked" ELSE "returned"
    /\ store' = r.m.store
    /\ calls' = r.m.calls
    /\ ret' = [op |-> op, filter |-> f, update |-> upd, fault |-> fault,
               before |-> store, fin |-> r.fin, has |-> r.has,
               matched |-> r.matched, modified |-> r.modified,
               deleted |-> r.deleted, err |-> r.err,
               found |-> d.found, docs |-> d.docs, ids |-> d.ids,
               count |-> d.count, input |-> d.input]

Memory == [store |-> store, calls |-> <<>>]

CallFindOne ==
    /\ pc = "store"
    /\ \E f \in StoreFilters, fault \in Faults :
          \E r \in FindOne(Memory, f, fault) :
             Return("FindOne", f, <<>>, fault,
                    Res(r.m, r.fin, r.fin = "ok" /\ r.err = "nil", 0, 0, 0, r.err),
                    [NoDoc EXCEPT !.found = r.found,
                                  !.docs = IF r.found THEN <<r.doc>> ELSE <<>>])
    /\ UNCHANGED <<doc, filter, update, result, updated, again, spare, doc0, cursor,
                   yielded, callers>>

CallFind ==
    /\ pc = "store"
    /\ \E f \in StoreFilters, fault \in Faults :
          \E t \in Find(Memory, f, fault) :
             /\ Return("Find", f, <<>>, fault,
                       Res(t.m, t.fin, t.fin = "ok", 0, 0, 0, "nil"),
                       [NoDoc EXCEPT !.found = t.fin = "ok",
                                     !.docs = t.cursor.documents])
             /\ cursor' = IF t.fin = "ok" THEN t.cursor ELSE cursor
    /\ UNCHANGED <<doc, filter, update, result, updated, again, spare, doc0, yielded, callers>>

CallUpdateOne ==
    /\ pc = "store"
    /\ \E f \in StoreFilters, upd \in StoreUpdates, fault \in Faults :
          \E r \in UpdateOne(Memory, f, upd, fault) :
             Return("UpdateOne", f, upd, fault, r, NoDoc)
    /\ UNCHANGED <<doc, filter, update, result, updated, again, spare, doc0, cursor,
                   yielded, callers>>

CallUpdateMany ==
    /\ pc = "store"
    /\ \E f \in StoreFilters, upd \in StoreUpdates, fault \in Faults :
          \E r \in UpdateMany(Memory, f, upd, fault) :
             Return("UpdateMany", f, upd, fault, r, NoDoc)
    /\ UNCHANGED <<doc, filter, update, result, updated, again, spare, doc0, cursor,
                   yielded, callers>>

CallDeleteOne ==
    /\ pc = "store"
    /\ \E f \in StoreFilters, fault \in Faults :
          \E r \in DeleteOne(Memory, f, fault) :
             Return("DeleteOne", f, <<>>, fault, r, NoDoc)
    /\ UNCHANGED <<doc, filter, update, result, updated, again, spare, doc0, cursor,
                   yielded, callers>>

CallDeleteMany ==
    /\ pc = "store"
    /\ \E f \in StoreFilters, fault \in Faults :
          \E r \in DeleteMany(Memory, f, fault) :
             Return("DeleteMany", f, <<>>, fault, r, NoDoc)
    /\ UNCHANGED <<doc, filter, update, result, updated, again, spare, doc0, cursor,
                   yielded, callers>>

CallInsertOne ==
    /\ pc = "store"
    /\ \E d \in InsertDocs, fault \in Faults :
          \E r \in InsertOne(Memory, d, fault) :
             Return("InsertOne", <<>>, <<>>, fault,
                    Res(r.m, r.fin, r.has, 0, 0, 0, r.err),
                    [NoDoc EXCEPT !.ids = r.ids, !.input = <<d>>])
    /\ UNCHANGED <<doc, filter, update, result, updated, again, spare, doc0, cursor,
                   yielded, callers>>

CallInsertMany ==
    /\ pc = "store"
    /\ \E docs \in SeqsUpTo(InsertDocs, MaxStored), fault \in Faults :
          \E r \in InsertMany(Memory, docs, fault) :
             Return("InsertMany", <<>>, <<>>, fault,
                    Res(r.m, r.fin, r.has, 0, 0, 0, r.err),
                    [NoDoc EXCEPT !.ids = r.ids, !.input = docs])
    /\ UNCHANGED <<doc, filter, update, result, updated, again, spare, doc0, cursor,
                   yielded, callers>>

CallCountDocuments ==
    /\ pc = "store"
    /\ \E f \in StoreFilters, fault \in Faults :
          \E r \in CountDocuments(Memory, f, fault) :
             Return("CountDocuments", f, <<>>, fault,
                    Res(r.m, r.fin, r.fin = "ok", 0, 0, 0, r.err),
                    [NoDoc EXCEPT !.count = r.count])
    /\ UNCHANGED <<doc, filter, update, result, updated, again, spare, doc0, cursor,
                   yielded, callers>>

NextStore ==
    \/ CallFindOne
    \/ CallFind
    \/ CallUpdateOne
    \/ CallUpdateMany
    \/ CallDeleteOne
    \/ CallDeleteMany
    \/ CallInsertOne
    \/ CallInsertMany
    \/ CallCountDocuments

SpecStore == InitStore /\ [][NextStore]_vars

----------------------------------------------------------------------------
(* Properties of the collection, checked under SpecStore *)

\* the filter is exactly {"_id": <string>}
IdLiteral(f) == DOMAIN f = {"_id"} /\ f["_id"].k = "string"

\* C18: FindOne with a filter that is exactly {"_id": <string>} issues one
\* point-lookup, of that identity, and nothing else; FindOne with any other
\* filter, and Find with any filter, issue one full scan and nothing else,
\* and every document they return is one matchesFilter accepts.
C18_FastPath ==
    (pc # "store" /\ ret.op \in {"FindOne", "Find"}) =>
        IF ret.op = "FindOne" /\ IdLiteral(ret.filter)
        THEN /\ Len(calls) = 1
             /\ calls[1].op = "find_by_id"
             /\ calls[1].id = ret.filter["_id"].v
        ELSE /\ Len(calls) = 1
             /\ calls[1].op = "find_all"
             /\ \A i \in DOMAIN ret.docs : "true" \in matchesFilter(ret.docs[i], ret.filter)

\* FindOne has found, through a full scan, a document by a filter that
\* carries a string "_id" and a further key
C18_Witness ==
    /\ pc = "returned"
    /\ ret.op = "FindOne"
    /\ Get(ret.filter, "_id").k = "string"
    /\ ~IdLiteral(ret.filter)
    /\ ret.found
    /\ Len(ret.before) > 1

\* no document of the collection matches the filter
NoMatch(docs, f) == \A i \in DOMAIN docs : "true" \notin matchesFilter(docs[i], f)

\* every call the store received was answered without a failure
FaultFree == \A i \in DOMAIN calls : calls[i].ok

\* C19: when no document of the collection matches the filter and the store
\* answers every call, UpdateOne and DeleteOne return a result with all
\* counts 0 and no error, issue no update and no delete, and leave the
\* collection as it was.
C19_NoMatchNoOp ==
    (pc # "store" /\ ret.op \in {"UpdateOne", "DeleteOne"}
       /\ NoMatch(ret.before, ret.filter) /\ FaultFree) =>
        /\ pc = "returned"
        /\ ret.has
        /\ ret.err = "nil"
        /\ ret.matched = 0 /\ ret.modified = 0 /\ ret.deleted = 0
        /\ \A i \in DOMAIN calls : calls[i].op \notin {"update", "delete"}
        /\ store = ret.before

\* the documents the initial scan of the call hands to the filter
Scanned == IF calls # <<>> /\ calls[1].op = "find_all" /\ calls[1].ok THEN ret.before ELSE <<>>

\* the number of per-document writes of the call that the store carried out
Completed == Cardinality({i \in DOMAIN calls : calls[i].op \in {"update", "delete"} /\ calls[i].ok})

\* C20: when UpdateMany or DeleteMany has returned, with or without an
\* error, it has returned counts: MatchedCount is the number of documents
\* of the initial scan that match the filter, and ModifiedCount resp.
\* DeletedCount is the number of per-document writes that were carried out.
C20_BatchCounts ==
    (pc = "returned" /\ ret.op \in {"UpdateMany", "DeleteMany"}) =>
        /\ ret.has
        /\ ret.op = "UpdateMany" =>
              /\ ret.matched = Cardinality({i \in DOMAIN Scanned :
                                   "true" \in matchesFilter(Scanned[i], ret.filter)})
              /\ ret.modified = Completed
        /\ ret.op = "DeleteMany" => ret.deleted = Completed

\* the per-document writes of the call
WriteOps == {"update", "delete", "insert"}

\* the calls of the store that were per-document writes and failed
FailedWrites == {i \in DOMAIN calls : calls[i].op \in WriteOps /\ ~calls[i].ok}

\* the write that call number i asked for is in the collection
InEffect(i) ==
    CASE calls[i].op = "delete" -> Position(store, calls[i].id) = {}
      [] calls[i].op \in {"update", "insert"} ->
            \E j \in DOMAIN store :
               store[j] = Put(JSONDoc(calls[i].payload), "_id", V("string", calls[i].id))
      [] OTHER -> TRUE

\* C21: when a per-document write of UpdateMany, DeleteMany or InsertMany
\* has failed, the first failed write is the last call the batch issued,
\* the writes before it are in effect in the collection, and the batch has
\* returned an error.
C21_BatchStops ==
    (pc = "returned" /\ ret.op \in {"UpdateMany", "DeleteMany", "InsertMany"}
       /\ FailedWrites # {}) =>
        LET k == CHOOSE i \in FailedWrites : \A j \in FailedWrites : i <= j
        IN  /\ Len(calls) = k
            /\ \A i \in 1..(k - 1) : InEffect(i)
            /\ ret.err # "nil"

\* the calls of the store that the store failed: a scan, a point-lookup or
\* a delete
FailedReads ==
    {i \in DOMAIN calls : calls[i].op \in {"find_all", "find_by_id", "delete"} /\ ~calls[i].ok}

\* C22: when the full scan has failed or its reply could not be decoded,
\* Find, FindOne, CountDocuments, UpdateMany and DeleteMany have returned an
\* error; when the point-lookup or the delete has failed, FindOne and
\* DeleteOne have returned an error.
C22_FailuresSurface ==
    (pc = "returned" /\ FailedReads # {}
       /\ ret.op \in {"Find", "FindOne", "CountDocuments", "UpdateMany", "DeleteMany",
                      "DeleteOne"}) =>
        ret.err # "nil"

\* C23: InsertMany sends its documents to the store one by one in input
\* order.  When it returns no error, every document was inserted,
\* InsertedIDs holds the identities the store gave, in input order, and the
\* collection has grown by these documents.  When it returns an error, the
\* insert of some document k has failed, the documents before k are in the
\* collection, and no document after k was sent.
C23_InsertMany ==
    (pc = "returned" /\ ret.op = "InsertMany") =>
        LET n == Len(ret.input)
            sent == Len(calls)
            Stored(i) == Put(JSONDoc(ret.input[i]), "_id", V("string", calls[i].id))
        IN  /\ sent <= n
            /\ \A i \in 1..sent : calls[i].op = "insert" /\ calls[i].payload = ret.input[i]
            /\ IF ret.err = "nil"
               THEN /\ ret.has
                    /\ sent = n
                    /\ Len(ret.ids) = n
                    /\ \A i \in 1..n : calls[i].ok /\ ret.ids[i] = calls[i].id
                    /\ store = ret.before \o [i \in 1..n |-> Stored(i)]
               ELSE /\ ~ret.has
                    /\ \E k \in 1..n :
                          /\ \A i \in 1..(k - 1) : calls[i].ok
                          /\ \/ ~Encodable(ret.input[k]) /\ sent = k - 1
                             \/ sent = k /\ ~calls[k].ok
                          /\ store = ret.before \o [i \in 1..(k - 1) |-> Stored(i)]

\* InsertMany has failed on its second document, after the first one was
\* inserted
C23_Witness ==
    /\ pc = "returned"
    /\ ret.op = "InsertMany"
    /\ ret.err # "nil"
    /\ Len(ret.input) > 1
    /\ Len(store) = Len(ret.before) + 1

C28_FastPathAgrees ==
    (pc = "returned" /\ ret.op = "FindOne" /\ IdLiteral(ret.filter) /\ FaultFree) =>
        \A t \in FilterDocs(ret.before, ret.filter) :
            /\ t.fin = "ok"
            /\ ret.err = "nil"
            /\ ret.found = (t.docs # <<>>)
            /\ ret.found => ret.docs = <<t.docs[1]>>

\* FindOne has found by its point-lookup a document that is not the first
\* of the collection
C28_Witness ==
    /\ pc = "returned"
    /\ ret.op = "FindOne"
    /\ IdLiteral(ret.filter)
    /\ FaultFree
    /\ ret.found
    /\ Len(ret.before) > 1
    /\ ret.docs[1] # ret.before[1]

----------------------------------------------------------------------------
(* The iteration loop  for cursor.Next() { cursor.Decode(&v) }  on a fresh
   cursor whose skip and limit were set before the loop; after the loop the
   caller goes on calling Next *)

InitLoop ==
    /\ pc = "test"
    /\ doc = <<>>
    /\ filter = <<>>
    /\ update = <<>>
    /\ result = "none"
    /\ updated = <<>>
    /\ again = <<>>
    /\ spare = <<>>
    /\ doc0 = <<>>
    /\ \E docs \in SeqsUpTo(CursorDocs, MaxDocs), s \in Args, l \in Args :
          cursor = Skip(Limit(NewCursor(docs), l), s)
    /\ ret = [op |-> "NewCursor", arg |-> 0, target |-> "none", val |-> "none",
              docs |-> <<>>, before |-> <<>>]
    /\ store = <<>>
    /\ calls = <<>>
    /\ yielded = <<>>
    /\ callers = <<>>

\* the loop condition
LoopTest ==
    /\ pc = "test"
    /\ ret' = Call("Next", 0, "none", IF Next(cursor) THEN "true" ELSE "false", <<>>)
    /\ pc' = IF Next(cursor) THEN "body" ELSE "exit"
    /\ UNCHANGED <<doc, filter, update, result, updated, again, spare, doc0,
                   cursor, store, calls, yielded, callers>>

\* the loop body
LoopBody ==
    /\ pc = "body"
    /\ \E target \in Targets :
          LET r == Decode(cursor, target)
          IN  /\ cursor' = r.c
              /\ ret' = Call("Decode", 0, target, r.val, r.docs)
              /\ yielded' = Append(yielded, [target |-> target, val |-> r.val, docs |-> r.docs])
    /\ pc' = "test"
    /\ UNCHANGED <<doc, filter, update, result, updated, again, spare, doc0,
                   store, calls, callers>>

\* a call of Next after the loop
AfterLoop ==
    /\ pc = "exit"
    /\ ret' = Call("Next", 1, "none", IF Next(cursor) THEN "true" ELSE "false", <<>>)
    /\ UNCHANGED <<pc, doc, filter, update, result, updated, again, spare, doc0,
                   cursor, store, calls, yielded, callers>>

NextLoop == LoopTest \/ LoopBody \/ AfterLoop

\* the loop is sequential code: its next step is always taken
SpecLoop == InitLoop /\ [][NextLoop]_vars /\ WF_vars(NextLoop)

----------------------------------------------------------------------------
(* Properties of the iteration loop, checked under SpecLoop *)

\* the window of the cursor: skip and limit do not change during the loop
Window == All([cursor EXCEPT !.index = 0])

\* C29: the loop ends; when it has ended it has made as many iterations as
\* the window has documents, the i-th Decode was on the i-th document of the
\* window (a Decode into a suitable target returned no error and yielded
\* that document as JSON decodes it), and every later Next returns false.
C29_LoopTerminates ==
    /\ <>(pc = "exit")
    /\ [](Len(yielded) <= Len(Window))
    /\ [](pc = "exit" =>
             /\ Len(yielded) = Len(Window)
             /\ \A i \in DOMAIN yielded :
                   IF yielded[i].target = "pointer"
                   THEN yielded[i].val = "nil" /\ yielded[i].docs = <<JSONDoc(Window[i])>>
                   ELSE yielded[i].val = "unmarshal error"
             /\ ret.op = "Next" /\ ret.val = "false")

\* the loop has ended after more than one iteration on a window that does
\* not start at the first document, every Decode having yielded its
\* document, and Next was called again after the loop
C29_Witness ==
    /\ pc = "exit"
    /\ Len(yielded) > 1
    /\ cursor.skip > 0
    /\ Len(Window) < Len(cursor.documents)
    /\ \A i \in DOMAIN yielded : yielded[i].val = "nil"
    /\ ret.arg = 1

----------------------------------------------------------------------------
(* Two callers on one collection.  The collection holds no lock: a caller's
   operation is a sequence of store calls, each of them one step, and the
   steps of the two callers interleave in any order.  callers[c] is the
   position of caller c in its operation and the locals it holds there. *)

\* a stored document with a counter n
Counter(id, n) == [x \in {"_id", "n"} |-> IF x = "_id" THEN id ELSE V("float64", n)]

RaceStores ==
    {docs \in SeqsUpTo({Counter(id, n) : id \in {IdI, IdJ}, n \in 1..MaxNum}, 2) :
        \A i \in DOMAIN docs, j \in DOMAIN docs : docs[i]["_id"] = docs[j]["_id"] => i = j}

\* {"$inc": {"n": amount}}
RaceUpdates == {One("$inc", V("M", One("n", V("float64", n)))) : n \in 1..MaxNum}

\* the operations a caller runs: UpdateOne and DeleteOne with filter
\* {"_id": "i"}, UpdateMany with the empty filter
RaceOps == {"UpdateOne", "UpdateMany", "DeleteOne"}

Enter(op) ==
    [op |-> op, at |-> IF op = "UpdateMany" THEN "scan" ELSE "lookup",
     id |-> IdI.v, todo |-> <<>>, cur |-> <<>>,
     matched |-> 0, modified |-> 0, deleted |-> 0, writes |-> 0, err |-> "nil"]

InitRace ==
    /\ pc = "race"
    /\ doc = <<>>
    /\ filter = <<>>
    /\ update \in RaceUpdates
    /\ result = "none"
    /\ updated = <<>>
    /\ again = <<>>
    /\ spare = <<>>
    /\ doc0 = <<>>
    /\ cursor = NewCursor(<<>>)
    /\ ret = <<>>
    /\ store \in RaceStores
    /\ calls = <<>>
    /\ yielded = <<>>
    /\ callers \in [1..2 -> {Enter(op) : op \in RaceOps}]

Shared == [store |-> store, calls |-> calls]

\* UpdateMany goes on to the next document found, or returns
NextDoc(r) ==
    IF Len(r.todo) > 1
    THEN [r EXCEPT !.todo = Tail(@), !.id = ID(r.todo[2]), !.at = "lookup"]
    ELSE [r EXCEPT !.todo = <<>>, !.at = "done"]

\* UpdateMany: the documents to update are found
RaceScan(c) ==
    /\ callers[c].at = "scan"
    /\ \E t \in Find(Shared, filter, NoFault) :
          LET docs == All(t.cursor)
          IN  /\ store' = t.m.store
              /\ calls' = t.m.calls
              /\ callers' = [callers EXCEPT ![c] =
                    IF docs = <<>>
                    THEN [@ EXCEPT !.at = "done"]
                    ELSE [@ EXCEPT !.todo = docs, !.matched = Len(docs),
                                   !.id = ID(docs[1]), !.at = "lookup"]]
    /\ UNCHANGED <<pc, doc, filter, update, result, updated, again, spare, doc0,
                   cursor, ret, yielded>>

\* FindOne({"_id": id}) of UpdateOne and of DeleteOne
RaceLookup(c) ==
    /\ callers[c].at = "lookup"
    /\ \E r \in FindOne(Shared, One("_id", V("string", callers[c].id)), NoFault) :
          /\ store' = r.m.store
          /\ calls' = r.m.calls
          /\ callers' = [callers EXCEPT ![c] =
                IF r.found
                THEN [@ EXCEPT !.cur = r.doc,
                               !.at = IF callers[c].op = "DeleteOne" THEN "delete"
                                      ELSE "write"]
                ELSE IF callers[c].op = "UpdateMany"
                     THEN NextDoc([@ EXCEPT !.modified = @ + 1])
                     ELSE [@ EXCEPT !.at = "done"]]
    /\ UNCHANGED <<pc, doc, filter, update, result, updated, again, spare, doc0,
                   cursor, ret, yielded>>

\* a write of the update applied to the document the store holds now
WriteBack_Fresh(m, cur, upd) ==
    LET now == IF Position(m.store, ID(cur)) = {} THEN cur
               ELSE m.store[CHOOSE i \in Position(m.store, ID(cur)) : TRUE]
    IN  {keradb_update(m, ID(cur), Del(st.heap[st.ref], "_id"), NoFault) :
            st \in {x \in applyUpdate(now, NoSpare(now), upd) : x.fin # "panic"}}

\* the rest of UpdateOne: the update is applied to the document that was
\* read, and the outcome is written under its identity
WriteBack(m, cur, upd) ==
    {keradb_update(m, ID(cur), Del(st.heap[st.ref], "_id"), NoFault) :
        st \in {x \in applyUpdate(cur, NoSpare(cur), upd) : x.fin # "panic"}}

RaceWrite(c) ==
    /\ callers[c].at = "write"
    /\ \E w \in WriteBack(Shared, callers[c].cur, update) :
          /\ store' = w.m.store
          /\ calls' = w.m.calls
          /\ callers' = [callers EXCEPT ![c] =
                IF w.reply = "null"
                THEN [@ EXCEPT !.writes = @ + 1, !.err = "update failed", !.at = "done"]
                ELSE IF callers[c].op = "UpdateMany"
                     THEN NextDoc([@ EXCEPT !.writes = @ + 1, !.modified = @ + 1])
                     ELSE [@ EXCEPT !.writes = @ + 1, !.matched = 1, !.modified = 1,
                                    !.at = "done"]]
    /\ UNCHANGED <<pc, doc, filter, update, result, updated, again, spare, doc0,
                   cursor, ret, yielded>>

\* the rest of DeleteOne
RaceDelete(c) ==
    /\ callers[c].at = "delete"
    /\ LET d == keradb_delete(Shared, ID(callers[c].cur), NoFault)
       IN  /\ store' = d.m.store
           /\ calls' = d.m.calls
           /\ callers' = [callers EXCEPT ![c] =
                 [@ EXCEPT !.deleted = d.count, !.at = "done"]]
    /\ UNCHANGED <<pc, doc, filter, update, result, updated, again, spare, doc0,
                   cursor, ret, yielded>>

NextRace ==
    \E c \in DOMAIN callers : RaceScan(c) \/ RaceLookup(c) \/ RaceWrite(c) \/ RaceDelete(c)

SpecRace == InitRace /\ [][NextRace]_vars

----------------------------------------------------------------------------
(* Properties of two concurrent callers, checked under SpecRace *)

\* both callers ran UpdateOne and have returned, and each of them read the
\* document before either of them wrote it
BothReadFirst ==
    /\ \A c \in DOMAIN callers : callers[c].op = "UpdateOne" /\ callers[c].at = "done"
    /\ Len(calls) = 4
    /\ calls[1].op = "find_by_id" /\ calls[1].ok
    /\ calls[2].op = "find_by_id" /\ calls[2].ok
    /\ \A c \in DOMAIN callers : callers[c].cur # <<>>

\* the counter of the document "i" in the store
StoredN == store[CHOOSE i \in Position(store, IdI.v) : TRUE]["n"].v

\* C25: when two callers of UpdateOne({"_id": x}, {"$inc": {"n": a}}) both
\* read the document before either writes it, they read the same value, both
\* return ModifiedCount 1 without an error, and the stored n has grown by a,
\* not by twice a: one of the two updates is lost.
C25_LostUpdate ==
    BothReadFirst =>
        /\ callers[1].cur = callers[2].cur
        /\ \A c \in DOMAIN callers : callers[c].modified = 1 /\ callers[c].err = "nil"
        /\ StoredN = callers[1].cur["n"].v + update["$inc"].v["n"].v

C25_Witness ==
    /\ BothReadFirst
    /\ callers[1].modified = 1 /\ callers[2].modified = 1
    /\ StoredN = callers[1].cur["n"].v + update["$inc"].v["n"].v
    /\ StoredN # callers[1].cur["n"].v + 2 * update["$inc"].v["n"].v

\* C30: an UpdateMany that returned without an error reports a
\* ModifiedCount no larger than the number of store writes it issued.
C30_ModifiedWithinWrites ==
    \A c \in DOMAIN callers :
        (callers[c].op = "UpdateMany" /\ callers[c].at = "done" /\ callers[c].err = "nil")
            => callers[c].modified <= callers[c].writes

----------------------------------------------------------------------------
(* A session on an empty collection: two documents are inserted, then
   Find, UpdateOne, FindOne, DeleteMany and CountDocuments are called in
   this order.  pc is the call to make next and ret what the last call
   returned.  The store answers every call. *)

\* "Alice" and "Bob"
Alice == <<65, 108, 105, 99, 101>>
Bob == <<66, 111, 98>>

\* map[string]interface{}{"name": name, "age": age}, as the caller writes it
Person(name, age) ==
    [x \in {"name", "age"} |-> IF x = "name" THEN V("string", name) ELSE V("int", age)]

People == {Person(Alice, 30), Person(Bob, 25)}

\* a number the caller passes: an untyped constant, or a float64
Literal(n) == {V("int", n), V("float64", n)}

\* M{"age": M{"$gte": 26}}
AgeFilters == {One("age", V("M", One("$gte", n))) : n \in Literal(26)}

\* M{"$inc": M{"age": 5}}
AgeUpdates == {One("$inc", V("M", One("age", n))) : n \in Literal(5)}

\* M{"name": "Bob"}
IsBob == One("name", V("string", Bob))

InitSession ==
    /\ pc = "InsertOne"
    /\ doc = <<>>
    /\ filter \in AgeFilters
    /\ update \in AgeUpdates
    /\ result = "none"
    /\ updated = <<>>
    /\ again = <<>>
    /\ spare = <<>>
    /\ doc0 = <<>>
    /\ cursor = NewCursor(<<>>)
    /\ ret = [op |-> "Collection"]
    /\ store = <<>>
    /\ calls = <<>>
    /\ yielded = <<>>
    /\ callers = <<>>

\* the call op(f, upd) has ended with outcome r and the session goes on to
\* the call next; d is what a read found
Proceed(next, op, f, upd, r, d) ==
    /\ pc' = IF r.fin = "panic" THEN "panicked" ELSE next
    /\ store' = r.m.store
    /\ calls' = r.m.calls
    /\ ret' = [op |-> op, filter |-> f, update |-> upd, fault |-> NoFault,
               before |-> store, fin |-> r.fin, has |-> r.has,
               matched |-> r.matched, modified |-> r.modified,
               deleted |-> r.deleted, err |-> r.err,
               found |-> d.found, docs |-> d.docs, ids |-> d.ids,
               count |-> d.count, input |-> d.input]

\* the two documents are inserted, in either order
SessionInsertOne ==
    /\ pc = "InsertOne"
    /\ \E d \in People :
          /\ \A i \in DOMAIN store : store[i]["name"] # d["name"]
          /\ \E r \in InsertOne(Shared, d, NoFault) :
                Proceed(IF store = <<>> THEN "InsertOne" ELSE "Find",
                        "InsertOne", <<>>, <<>>,
                        Res(r.m, r.fin, r.has, 0, 0, 0, r.err),
                        [NoDoc EXCEPT !.ids = r.ids, !.input = <<d>>])
    /\ UNCHANGED <<doc, filter, update, result, updated, again, spare, doc0, cursor,
                   yielded, callers>>

SessionFind ==
    /\ pc = "Find"
    /\ \E t \in Find(Shared, filter, NoFault) :
          /\ Proceed("UpdateOne", "Find", filter, <<>>,
                     Res(t.m, t.fin, t.fin = "ok", 0, 0, 0, "nil"),
                     [NoDoc EXCEPT !.found = t.fin = "ok", !.docs = All(t.cursor)])
          /\ cursor' = t.cursor
    /\ UNCHANGED <<doc, filter, update, result, updated, again, spare, doc0,
                   yielded, callers>>

SessionUpdateOne ==
    /\ pc = "UpdateOne"
    /\ \E r \in UpdateOne(Shared, IsBob, update, NoFault) :
          Proceed("FindOne", "UpdateOne", IsBob, update, r, NoDoc)
    /\ UNCHANGED <<doc, filter, update, result, updated, again, spare, doc0, cursor,
                   yielded, callers>>

SessionFindOne ==
    /\ pc = "FindOne"
    /\ \E r \in FindOne(Shared, IsBob, NoFault) :
          Proceed("DeleteMany", "FindOne", IsBob, <<>>,
                  Res(r.m, r.fin, r.fin = "ok" /\ r.err = "nil", 0, 0, 0, r.err),
                  [NoDoc EXCEPT !.found = r.found,
                                !.docs = IF r.found THEN <<r.doc>> ELSE <<>>])
    /\ UNCHANGED <<doc, filter, update, result, updated, again, spare, doc0, cursor,
                   yielded, callers>>

SessionDeleteMany ==
    /\ pc = "DeleteMany"
    /\ \E r \in DeleteMany(Shared, <<>>, NoFault) :
          Proceed("CountDocuments", "DeleteMany", <<>>, <<>>, r, NoDoc)
    /\ UNCHANGED <<doc, filter, update, result, updated, again, spare, doc0, cursor,
                   yielded, callers>>

SessionCountDocuments ==
    /\ pc = "CountDocuments"
    /\ \E r \in CountDocuments(Shared, <<>>, NoFault) :
          Proceed("end", "CountDocuments", <<>>, <<>>,
                  Res(r.m, r.fin, r.fin = "ok", 0, 0, 0, r.err),
                  [NoDoc EXCEPT !.count = r.count])
    /\ UNCHANGED <<doc, filter, update, result, updated, again, spare, doc0, cursor,
                   yielded, callers>>

NextSession ==
    \/ SessionInsertOne
    \/ SessionFind
    \/ SessionUpdateOne
    \/ SessionFindOne
    \/ SessionDeleteMany
    \/ SessionCountDocuments

SpecSession == InitSession /\ [][NextSession]_vars

----------------------------------------------------------------------------
(* Properties of the session, checked under SpecSession *)

\* C24: in the session, Find({"age": {"$gte": 26}}) returns the document of
\* Alice and no other, FindOne({"name": "Bob"}) after
\* UpdateOne({"name": "Bob"}, {"$inc": {"age": 5}}) finds a document whose
\* age is 30, and CountDocuments({}) after DeleteMany({}) returns 0,
\* whatever the numeric kind of the numbers the caller passes.
C24_Session ==
    /\ ret.op = "Find" =>
          /\ Len(ret.docs) = 1
          /\ ret.docs[1]["name"] = V("string", Alice)
    /\ ret.op = "FindOne" =>
          /\ ret.found
          /\ IsNumber(Get(ret.docs[1], "age"))
          /\ ret.docs[1]["age"].v = 30
    /\ ret.op = "CountDocuments" => ret.count = 0

====
